---- MODULE Spec2Model ----
(***************************************************************************)
(* DevManager: the mirror resolution and configuration subsystem.          *)
(*                                                                         *)
(* One behaviour follows one component (prog): the Maven configurator and  *)
(* its GUI tab, one of the CLI-driven configurators (pip, npm, Composer),  *)
(* or one of the database configuration managers.  Every action is one     *)
(* whole handler of the source; the outcomes of the operating system, the  *)
(* vendor CLIs and the interactive user are inputs drawn with \E.          *)
(***************************************************************************)
EXTENDS Integers, Sequences, FiniteSets, TLC

(***************************************************************************)
(* Bounds of the model                                                     *)
(***************************************************************************)
\* operations per behaviour
MaxOps == 2
\* the wall clock runs from 0 to MaxClock ticks
MaxClock == 2
\* clock ticks per second: strftime("%Y%m%d_%H%M%S") truncates to the second
TicksPerSecond == 2

(***************************************************************************)
(* Files.  A file is <<>> when it does not exist and <<content>> when it   *)
(* does; a content is a sequence of items [k, sep, v] (lines of a flat     *)
(* configuration file, elements of settings.xml).                          *)
(***************************************************************************)
Absent == <<>>
File(content) == <<content>>
Exists(f) == f # Absent
ContentOf(f) == f[1]
Item(k, sep, v) == [k |-> k, sep |-> sep, v |-> v]

\* the outcome of one call into the operating system: it succeeds, or it
\* raises before it changed anything
IoOutcomes == {"ok", "fail"}

\* Path.mkdir(parents=True, exist_ok=True) can only fail when the directory
\* is not there yet
MkdirOutcomes(dirExists) == IF dirExists THEN {"ok"} ELSE IoOutcomes

\* shutil.copy2(src, dst): the destination after the call
copy2(src, dst, outcome) == IF outcome = "ok" THEN src ELSE dst

(***************************************************************************)
(* Sequence helpers                                                        *)
(***************************************************************************)
Indices(s) == 1..Len(s)
\* the least index of a set of indices, 0 when there is none (no match)
FirstIndex(I) == IF I = {} THEN 0 ELSE CHOOSE i \in I : \A j \in I : i <= j
IndexOf(s, x) == FirstIndex({i \in Indices(s) : s[i] = x})
InsertAt(s, i, x) == SubSeq(s, 1, i - 1) \o <<x>> \o SubSeq(s, i, Len(s))

(***************************************************************************)
(* Maven: settings.xml as the sequence of the elements the code looks at   *)
(*   [k |-> "localRepository", v |-> path]                                 *)
(*   [k |-> "mirrors", sep |-> "open" | "close"]                           *)
(*   [k |-> "mirror", sep |-> "" | "comment", v |-> text of the block]     *)
(* A block with sep = "comment" lies inside an XML comment: a regular      *)
(* expression on the text sees it, the XML parser does not.                *)
(***************************************************************************)
MavenMIRRORS == <<"aliyun", "huawei", "tencent", "netease", "ustc", "official">>
MirrorsOpen == Item("mirrors", "open", "")
MirrorsClose == Item("mirrors", "close", "")
LocalRepo(p) == Item("localRepository", "", p)
Block(text) == Item("mirror", "", text)
Commented(text) == Item("mirror", "comment", text)
IsBlock(it) == it.k = "mirror"
IsActiveBlock(it) == it.k = "mirror" /\ it.sep = ""

\* resources/settings.xml is not part of the sources: every shape is possible
Templates ==
  { <<LocalRepo("tpl")>>,
    <<LocalRepo("tpl"), MirrorsOpen, MirrorsClose>>,
    <<LocalRepo("tpl"), MirrorsOpen, Block("tpl1"), MirrorsClose>>,
    <<MirrorsOpen, Block("tpl1"), Block("tpl2"), MirrorsClose>>,
    <<LocalRepo("tpl"), MirrorsOpen, Commented("tpl1"), MirrorsClose>>,
    <<MirrorsOpen, Commented("tpl1"), Block("tpl2"), MirrorsClose>> }

\* a settings.xml the user wrote by hand before the tool ran
UserSettings == <<LocalRepo("mine"), MirrorsOpen, Block("mine"), MirrorsClose>>

\* the new <mirror> block of _update_mirror_in_settings
new_mirror(key) == key

\* re.search(r'<mirror>.*?</mirror>') then content.replace(match, new_mirror):
\* every block whose text equals the first match is replaced; without a
\* match the block is inserted before </mirrors>; without <mirrors> the
\* content stays as it is
PatchMirror(content, key) ==
  LET i == FirstIndex({j \in Indices(content) : IsBlock(content[j])})
      o == IndexOf(content, MirrorsOpen)
      c == IndexOf(content, MirrorsClose)
  IN  IF i # 0
        THEN [j \in Indices(content) |->
                IF IsBlock(content[j]) /\ content[j].v = content[i].v
                  THEN [content[j] EXCEPT !.v = new_mirror(key)]
                  ELSE content[j]]
        ELSE IF o # 0 /\ c > o
          THEN InsertAt(content, c, Block(new_mirror(key)))
          ELSE content

\* get_current_config()['mirrors']: the <mirror> children of <mirrors> the
\* XML parser finds
ParsedMirrors(content) ==
  LET o == IndexOf(content, MirrorsOpen)
      c == IndexOf(content, MirrorsClose)
  IN  IF o # 0 /\ c > o
        THEN SelectSeq(SubSeq(content, o + 1, c - 1), IsActiveBlock)
        ELSE <<>>

\* verify_configuration: the file exists and lists at least one mirror
MavenVerify(f) == Exists(f) /\ ParsedMirrors(ContentOf(f)) # <<>>

\* _update_local_repository: re.sub on every <localRepository>, or a new
\* element right after the <settings> tag
PatchLocalRepo(content, path) ==
  IF \E i \in Indices(content) : content[i].k = "localRepository"
    THEN [j \in Indices(content) |->
            IF content[j].k = "localRepository"
              THEN [content[j] EXCEPT !.v = path] ELSE content[j]]
    ELSE <<LocalRepo(path)>> \o content

(***************************************************************************)
(* State                                                                   *)
(***************************************************************************)
VARIABLES
  prog,       \* the component this behaviour follows
  nops,       \* operations run so far
  clock,      \* wall clock, in ticks
  target,     \* the configuration file (settings.xml, redis.conf, ...)
  backups,    \* the backup files beside it, by suffix
  confdir,    \* TRUE when the directory of the configuration file exists
  source,     \* Maven: resources/settings.xml
  config_files, \* config managers: the paths found at construction
  installed,  \* TRUE when the tool's CLI is on PATH
  cli,        \* what the vendor CLI stores: [url, host, project]
  made,       \* history: every backup a backup step reported as made
  last,       \* history: what the last operation did and returned
  pc,         \* test_all_mirrors: "idle", "probing" or "done"
  results,    \* test_all_mirrors: the list the loop appends to
  ranked,     \* test_all_mirrors: the list it returned
  recommended, \* the key after "推荐使用", "none" when nothing is recommended
  inflight,   \* the key whose probe has been called and has not returned
  started,    \* history: the keys whose probe was called, in call order
  lastProbe,  \* history: the last probe that returned
  is_running, \* the flag of the GUI test thread
  stop_called, \* history: stop() has been called on the thread
  hba,        \* PostgreSQL: pg_hba.conf and its .backup, [file, backup]
  ui_pc,      \* where the GUI thread is: "idle" (in the event loop),
              \* "configure_mirror" or "wait" (inside that blocking call)
  test_btn,   \* config tab: the start button is enabled
  stop_btn,   \* config tab: the stop button is enabled
  status_label, \* config tab: the text of the status label
  result_table, \* config tab: the results shown, <<>> when the rows are "-"
  threads,    \* config tab: every test thread created; test_thread is the last
  posted,     \* config tab: the slot calls queued for the GUI thread
  net         \* config tab: "up" or "down", what the probes of a tab find

vars == <<prog, nops, clock, target, backups, confdir, source, config_files,
          installed, cli, made, last, pc, results, ranked, recommended,
          inflight, started, lastProbe, is_running, stop_called, hba, ui_pc,
          test_btn, stop_btn, status_label, result_table, threads, posted,
          net>>
testVars == <<pc, results, ranked, recommended, inflight, started, lastProbe,
              is_running, stop_called>>
configVars == <<prog, nops, clock, target, backups, confdir, source, config_files,
                installed, cli, made, last, hba>>
widgetVars == <<test_btn, stop_btn, status_label, result_table, threads, posted,
                net>>
tabVars == <<ui_pc, widgetVars>>

Tools == {"pip", "npm", "composer", "maven"}

\* no probe in flight, no probe returned yet
NoKey == ""
NoProbe == [key |-> NoKey, outcome |-> "none", elapsed |-> 0, speed |-> 0]

\* the speed test before it is called
TestIdle ==
  /\ pc = "idle"
  /\ results = <<>>
  /\ ranked = <<>>
  /\ recommended = "none"
  /\ inflight = NoKey
  /\ started = <<>>
  /\ lastProbe = NoProbe
  /\ is_running = FALSE
  /\ stop_called = FALSE

\* a config tab after init_ui: no test thread, the stop button disabled
TabIdle ==
  /\ ui_pc = "idle"
  /\ test_btn = TRUE
  /\ stop_btn = FALSE
  /\ status_label = "ready"
  /\ result_table = <<>>
  /\ threads = <<>>
  /\ posted = <<>>

\* no pg_hba.conf (every component but PostgreSQL)
NoHba == [file |-> Absent, backup |-> Absent]

\* backup suffixes: NoStamp is <path>.backup, t >= 0 is <path>.backup.<t>
NoStamp == -1
Timestamp(now) == now \div TicksPerSecond
Suffixes == {NoStamp} \cup 0..Timestamp(MaxClock)

NoBackup == [tried |-> FALSE, ok |-> TRUE, at |-> NoStamp]
NoOp == [op |-> "none", key |-> "", result |-> "None", pre |-> Absent,
         fx |-> <<>>, backup |-> NoBackup, resp |-> "", verified |-> "skipped"]

\* the end of every handler: the files as the handler leaves them, and the
\* record of what it did
Finish(op, key, result, tgt, bks, dir, fx, bk, resp, ver) ==
  /\ target' = tgt
  /\ backups' = bks
  /\ confdir' = dir
  /\ made' = IF bk.tried /\ bk.ok
               THEN made \cup {[at |-> bk.at, file |-> bks[bk.at]]} ELSE made
  /\ last' = [op |-> op, key |-> key, result |-> result, pre |-> target,
              fx |-> fx, backup |-> bk, resp |-> resp, verified |-> ver]
  /\ nops' = nops + 1
  /\ ui_pc' = "idle"
  /\ UNCHANGED <<prog, clock, source, config_files, installed, hba>>
  /\ UNCHANGED <<testVars, widgetVars>>

(***************************************************************************)
(* MavenConfigurator                                                       *)
(***************************************************************************)
\* a faulty backup step, which copies the template and not the target
backup_of_template(tgt, bks, now, out) ==
  IF ~Exists(tgt) THEN [backups |-> bks, bk |-> NoBackup]
  ELSE LET at == IF Exists(bks[NoStamp]) THEN Timestamp(now) ELSE NoStamp
       IN  [backups |-> [bks EXCEPT ![at] = copy2(source, bks[at], out)],
            bk |-> [tried |-> TRUE, ok |-> out = "ok", at |-> at]]

\* backup_existing_settings: the backup files after the call and its result
backup_existing_settings(tgt, bks, now, out) ==
  IF ~Exists(tgt) THEN [backups |-> bks, bk |-> NoBackup]
  ELSE LET at == IF Exists(bks[NoStamp]) THEN Timestamp(now) ELSE NoStamp
       IN  [backups |-> [bks EXCEPT ![at] = copy2(tgt, bks[at], out)],
            bk |-> [tried |-> TRUE, ok |-> out = "ok", at |-> at]]

\* open(path, 'w') and write: the file after the call
WriteFile(old, content, outcome) == IF outcome = "ok" THEN File(content) ELSE old

\* a faulty ending, which puts back what was there when verification failed
RolledBackAfterVerify(written, before, verdict) ==
  IF verdict = "failed" THEN before ELSE written

\* after the verification, whatever its verdict, configure_mirror returns:
\* what the write step wrote stays
KeptAfterVerify(written, before, verdict) == written

\* the try block of configure_mirror: copy the template, patch it, verify
MavenWriteAndVerify(op, key, bks, fx, bk, resp) ==
  \E cp \in IoOutcomes :
    LET copied == copy2(source, target, cp) IN
    IF cp # "ok"
      THEN Finish(op, key, "False", copied, bks, TRUE, fx \o <<"copy">>, bk, resp, "skipped")
      ELSE \E rd \in IoOutcomes :
        IF rd # "ok"
          THEN Finish(op, key, "False", copied, bks, TRUE,
                      fx \o <<"copy", "read">>, bk, resp, "skipped")
          ELSE \E wr \in IoOutcomes :
            LET patched == WriteFile(copied, PatchMirror(ContentOf(copied), key), wr)
                fx2 == fx \o <<"copy", "read", "write">>
            IN  IF wr # "ok"
                  THEN Finish(op, key, "False", patched, bks, TRUE, fx2, bk, resp, "skipped")
                  ELSE IF ~MavenVerify(patched)
                    THEN Finish(op, key, "False",
                                KeptAfterVerify(patched, target, "failed"), bks, TRUE,
                                fx2 \o <<"verify">>, bk, resp, "failed")
                    ELSE Finish(op, key, "True",
                                KeptAfterVerify(patched, target, "ok"), bks, TRUE,
                                fx2 \o <<"verify">>, bk, resp, "ok")

\* input("备份失败，是否继续？(y/n): "): an answer, or EOFError when the
\* process has no standard input
Responses == {"y", "n", "eof"}

\* a faulty test, which stops only on the answer "n"
ContinueUnlessDeclined(resp) == resp # "n"

\* if response.lower() != 'y': return False
ContinueAfterFailedBackup(resp) == resp = "y"

\* how the handler ends when it does not continue
Cancelled(resp) == IF resp = "eof" THEN "raised" ELSE "False"

\* the keys configure_mirror is called with: a mirror of the catalog, the
\* upstream default, a key of no catalog
ApplyKeys(catalog) == {catalog[1], "official", "bogus-key"}

\* a faulty catalog test, which accepts every key
AnyKey(key, catalog) == TRUE

\* mirror_key in self.MIRRORS
InCatalog(key, catalog) == \E i \in Indices(catalog) : catalog[i] = key

Maven_configure_mirror ==
  /\ prog = "maven"
  /\ nops < MaxOps
  /\ UNCHANGED cli
  /\ \E key \in ApplyKeys(MavenMIRRORS) :
       IF ~InCatalog(key, MavenMIRRORS)
         THEN Finish("configure_mirror", key, "False", target, backups, confdir,
                     <<>>, NoBackup, "", "skipped")
       ELSE IF ~Exists(source)
         THEN Finish("configure_mirror", key, "False", target, backups, confdir,
                     <<"check">>, NoBackup, "", "skipped")
       ELSE \E mk \in MkdirOutcomes(confdir) :
         IF mk # "ok"
           THEN Finish("configure_mirror", key, "False", target, backups, confdir,
                       <<"check", "mkdir">>, NoBackup, "", "skipped")
           ELSE \E out \in IoOutcomes :
             LET b == backup_existing_settings(target, backups, clock, out)
                 fx == IF b.bk.tried THEN <<"check", "mkdir", "backup">>
                                         ELSE <<"check", "mkdir">>
             IN  IF b.bk.ok
                   THEN MavenWriteAndVerify("configure_mirror", key, b.backups, fx, b.bk, "")
                   ELSE \E resp \in Responses :
                     IF ContinueAfterFailedBackup(resp)
                       THEN MavenWriteAndVerify("configure_mirror", key, b.backups,
                                                fx, b.bk, resp)
                       ELSE Finish("configure_mirror", key, Cancelled(resp), target,
                                   b.backups, TRUE, fx, b.bk, resp, "skipped")

\* configure(backup): the default command, --no-backup gives backup = FALSE
MavenCopyAndVerify(bks, fx, bk, resp) ==
  \E cp \in IoOutcomes :
    LET copied == copy2(source, target, cp) IN
    IF cp # "ok"
      THEN Finish("configure", "", "False", copied, bks, TRUE,
                  fx \o <<"copy">>, bk, resp, "skipped")
      ELSE IF ~MavenVerify(copied)
        THEN Finish("configure", "", "False", copied, bks, TRUE,
                    fx \o <<"copy", "verify">>, bk, resp, "failed")
        ELSE Finish("configure", "", "True", copied, bks, TRUE,
                    fx \o <<"copy", "verify">>, bk, resp, "ok")

Maven_configure ==
  /\ prog = "maven"
  /\ nops < MaxOps
  /\ UNCHANGED cli
  /\ \E backup \in BOOLEAN :
       IF ~Exists(source)
         THEN Finish("configure", "", "False", target, backups, confdir,
                     <<"check">>, NoBackup, "", "skipped")
       ELSE \E mk \in MkdirOutcomes(confdir) :
         IF mk # "ok"
           THEN Finish("configure", "", "False", target, backups, confdir,
                       <<"check", "mkdir">>, NoBackup, "", "skipped")
         ELSE IF ~backup
           THEN MavenCopyAndVerify(backups, <<"check", "mkdir">>, NoBackup, "")
           ELSE \E out \in IoOutcomes :
             LET b == backup_existing_settings(target, backups, clock, out)
                 fx == IF b.bk.tried THEN <<"check", "mkdir", "backup">>
                                         ELSE <<"check", "mkdir">>
             IN  IF b.bk.ok
                   THEN MavenCopyAndVerify(b.backups, fx, b.bk, "")
                   ELSE \E resp \in Responses :
                     IF ContinueAfterFailedBackup(resp)
                       THEN MavenCopyAndVerify(b.backups, fx, b.bk, resp)
                       ELSE Finish("configure", "", Cancelled(resp), target,
                                   b.backups, TRUE, fx, b.bk, resp, "skipped")

\* MavenConfigTab._update_local_repository(repo_path)
RepoPaths == {"repo1", "repo2"}

MavenPatchLocalRepo(path, tgt, dir, fx) ==
  \E rd \in IoOutcomes :
    IF rd # "ok"
      THEN Finish("update_local_repository", path, "raised", tgt, backups, dir,
                  fx \o <<"read">>, NoBackup, "", "skipped")
      ELSE \E wr \in IoOutcomes :
        Finish("update_local_repository", path,
               IF wr = "ok" THEN "None" ELSE "raised",
               WriteFile(tgt, PatchLocalRepo(ContentOf(tgt), path), wr),
               backups, dir, fx \o <<"read", "write">>, NoBackup, "", "skipped")

Maven_update_local_repository ==
  /\ prog = "maven"
  /\ nops < MaxOps
  /\ UNCHANGED cli
  /\ \E path \in RepoPaths :
       IF Exists(target)
         THEN MavenPatchLocalRepo(path, target, confdir, <<>>)
         ELSE \E mk \in MkdirOutcomes(confdir), cp \in IoOutcomes :
           LET dir == confdir \/ mk = "ok"
               \* the copy needs the template and the directory
               out == IF Exists(source) /\ dir THEN cp ELSE "fail"
               copied == copy2(source, target, out)
           IN  IF out # "ok"
                 THEN Finish("update_local_repository", path, "raised", copied,
                             backups, dir, <<"mkdir", "copy">>, NoBackup, "", "skipped")
                 ELSE MavenPatchLocalRepo(path, copied, dir, <<"mkdir", "copy">>)

(***************************************************************************)
(* The configuration managers (MySQL, Redis, PostgreSQL, MinIO)            *)
(*                                                                         *)
(* config_data is an ordered dict, here a sequence of <<key, value>>       *)
(* pairs with distinct keys.  A line of a file is [k, sep, v]: "k v",      *)
(* "k=v" or "k = 'v'", a "[section]" header (sep = "["), a JSON member     *)
(* (sep = ":") or a comment (k = "#").                                     *)
(***************************************************************************)
Managers == {"mysql", "redis", "postgresql", "minio"}

ConfigData ==
  { <<>>,
    << <<"port", "2">> >>,
    << <<"port", "1">>, <<"bind", "2">> >>,
    << <<"bind", "1">>, <<"port", "2">> >> }

KeysOf(data) == {data[i][1] : i \in Indices(data)}
ValueOf(data, k) == data[CHOOSE i \in Indices(data) : data[i][1] = k][2]
Lines(data, sep) == [i \in Indices(data) |-> Item(data[i][1], sep, data[i][2])]

\* the configuration files found on the machine before the first write
InitialConfigs(m) ==
  CASE m = "redis" -> { <<Item("port", " ", "1")>>,
                        <<Item("requirepass a", "=", "b"), Item("port", "=", "1")>> }
    [] m = "mysql" -> { <<Item("mysqld", "[", ""), Item("port", "=", "1")>> }
    [] m = "minio" -> { <<Item("port", ":", "1")>> }
    [] OTHER -> { <<Item("#", "", "note"), Item("port", "=", "1"), Item("port", "=", "2")>>,
                  <<Item("work_mem", "=", "4")>> }

\* PostgreSQLConfigManager.write_config: re.match(r'^\s*(\w+)\s*=', line)
IsAssignment(line) == line.k # "#" /\ line.sep \in {"=", "= '"}

\* the loop over the old lines: the first line of each key of config_data is
\* rewritten, every other line is kept; rest is config_keys after the loop
RECURSIVE PgUpdateLines(_, _, _)
PgUpdateLines(lines, data, config_keys) ==
  IF lines = <<>> THEN [out |-> <<>>, rest |-> config_keys]
  ELSE LET line == Head(lines)
           hit == IsAssignment(line) /\ line.k \in config_keys
           r == PgUpdateLines(Tail(lines), data,
                              IF hit THEN config_keys \ {line.k} ELSE config_keys)
       IN  [out |-> <<IF hit THEN Item(line.k, "= '", ValueOf(data, line.k))
                             ELSE line>> \o r.out,
            rest |-> r.rest]

\* the orders in which "for key in config_keys" may visit a set
Orders(S) == {o \in [1..Cardinality(S) -> S] : \A k \in S : \E i \in DOMAIN o : o[i] = k}

PgWrite(lines, data, order) ==
  LET u == PgUpdateLines(lines, data, KeysOf(data))
  IN  u.out \o [i \in DOMAIN order |-> Item(order[i], "= '", ValueOf(data, order[i]))]

PgRest(lines, data) == PgUpdateLines(lines, data, KeysOf(data)).rest

\* what write_config writes for config_data, by manager
Serialize(m, data) ==
  CASE m = "redis" -> Lines(data, " ")
    [] m = "minio" -> Lines(data, ":")
    [] OTHER -> <<Item("mysqld", "[", "")>> \o Lines(data, "=")

\* write_config(config_data): backup to <path>.backup, then write
manager_backup(tgt, bks, out) ==
  IF ~Exists(tgt) THEN [backups |-> bks, bk |-> NoBackup]
  ELSE [backups |-> [bks EXCEPT ![NoStamp] = copy2(tgt, bks[NoStamp], out)],
        bk |-> [tried |-> TRUE, ok |-> out = "ok", at |-> NoStamp]]

\* the body of write_config(config_data), called by op after the steps fx0
ManagerWrite(op, key, data, fx0) ==
  IF config_files = <<>>
    THEN Finish(op, key, "False", target, backups, confdir,
                fx0, NoBackup, "", "skipped")
  ELSE \E out \in IoOutcomes :
    LET b == manager_backup(target, backups, out)
        fx == IF b.bk.tried THEN fx0 \o <<"backup">> ELSE fx0
    IN  IF ~b.bk.ok
          THEN Finish(op, key, "False", target, b.backups, confdir,
                      fx, b.bk, "", "skipped")
        ELSE IF prog = "postgresql"
          THEN \E rd \in IoOutcomes :
            IF Exists(target) /\ rd # "ok"
              THEN Finish(op, key, "False", target, b.backups, confdir,
                          fx \o <<"read">>, b.bk, "", "skipped")
              ELSE LET lines == IF Exists(target) THEN ContentOf(target) ELSE <<>>
                   IN  \E order \in Orders(PgRest(lines, data)), wr \in IoOutcomes :
                         Finish(op, key,
                                IF wr = "ok" THEN "True" ELSE "False",
                                WriteFile(target, PgWrite(lines, data, order), wr),
                                b.backups, confdir, fx \o <<"read", "write">>,
                                b.bk, "", "skipped")
          ELSE \E wr \in IoOutcomes :
            Finish(op, key, IF wr = "ok" THEN "True" ELSE "False",
                   WriteFile(target, Serialize(prog, data), wr),
                   b.backups, confdir, fx \o <<"write">>, b.bk, "", "skipped")

Manager_write_config ==
  /\ prog \in Managers
  /\ nops < MaxOps
  /\ UNCHANGED cli
  /\ \E data \in ConfigData : ManagerWrite("write_config", data, data, <<>>)

\* dict[k] = v: a key already there keeps its place
DictSet(data, k, v) ==
  IF k \in KeysOf(data)
    THEN [i \in Indices(data) |-> IF data[i][1] = k THEN <<k, v>> ELSE data[i]]
    ELSE Append(data, <<k, v>>)

RECURSIVE DictOf(_)
DictOf(pairs) ==
  IF pairs = <<>> THEN <<>>
  ELSE LET n == Len(pairs)
       IN  DictSet(DictOf(SubSeq(pairs, 1, n - 1)), pairs[n][1], pairs[n][2])

\* the lines read_config takes for settings: Redis wants a "=" in the line,
\* PostgreSQL matches key = value (quotes stripped from the value), MySQL
\* and MinIO parse what their write_config writes
IsSetting(m, line) ==
  CASE m = "redis" -> line.k # "#" /\ line.sep = "="
    [] m = "postgresql" -> line.k # "#" /\ line.sep \in {"=", "= '"}
    [] m = "mysql" -> line.k # "#" /\ line.sep = "="
    [] OTHER -> line.sep = ":"

\* read_config on an existing file: the dict, a later line wins
read_config(m, content) ==
  LET settings == SelectSeq(content, LAMBDA line : IsSetting(m, line))
  IN  DictOf([i \in Indices(settings) |-> <<settings[i].k, settings[i].v>>])

\* config_data.update({...}) of update_basic_config
Update(data, port, bind) == DictSet(DictSet(data, "port", port), "bind", bind)

\* update_basic_config(...): read_config() or {}, update, write_config
Manager_update_basic_config ==
  /\ prog \in Managers
  /\ nops < MaxOps
  /\ UNCHANGED cli
  /\ \E port \in {"1", "2"}, rd \in IoOutcomes :
       LET read == config_files # <<>> /\ Exists(target) /\ rd = "ok"
           config_data == IF read THEN read_config(prog, ContentOf(target)) ELSE <<>>
       IN  ManagerWrite("update_basic_config", port, Update(config_data, port, "0"),
                        IF read THEN <<"read_config">> ELSE <<"read_config_failed">>)

(***************************************************************************)
(* The CLI-driven configurators: pip, npm, Composer                        *)
(*                                                                         *)
(* cli.url is the mirror the tool's global configuration names (pip's      *)
(* global.index-url, npm's registry, repos.packagist.org of Composer's     *)
(* global config.json), cli.host is pip's global.trusted-host, and         *)
(* cli.project is repos.packagist.org of the composer.json of the working  *)
(* directory ("absent" when that directory has no composer.json).  A       *)
(* mirror is named by its catalog key; "unset" is no setting.              *)
(***************************************************************************)
PipMIRRORS == <<"tsinghua", "aliyun", "tencent", "douban", "ustc", "huawei", "official">>
NpmMIRRORS == <<"npmmirror", "tencent", "huawei", "ustc", "official">>
ComposerMIRRORS == <<"aliyun", "tencent", "huawei", "cnpkg", "sjtug", "official">>

MIRRORS(tool) ==
  CASE tool = "pip" -> PipMIRRORS
    [] tool = "npm" -> NpmMIRRORS
    [] tool = "composer" -> ComposerMIRRORS
    [] OTHER -> MavenMIRRORS

CliFinish(op, key, result, newcli, dir, fx, ver) ==
  /\ Finish(op, key, result, target, backups, dir, fx, NoBackup, "", ver)
  /\ cli' = KeptAfterVerify(newcli, cli, ver)

\* subprocess.run of a vendor CLI: without the CLI on PATH it raises
\* FileNotFoundError, otherwise the command decides
RunOutcomes == IF installed THEN {"ok", "fail"} ELSE {"raise"}

\* the value the verification step reads back: the stored one, or nothing
\* when the reading command or the parse fails
ReadBack(value, rd) == IF rd = "ok" /\ value # "unset" THEN value ELSE "none"

\* a faulty outcome of the second command: a failure clears the setting
TrustedHostCleared(set2, key, old) == IF set2 = "ok" THEN key ELSE "unset"

\* pip config set global.trusted-host: a command that exits non-zero stores
\* nothing, and configure_mirror goes on with a warning
TrustedHostAfter(set2, key, old) == IF set2 = "ok" THEN key ELSE old

\* PipConfigurator.configure_mirror
Pip_configure_mirror ==
  /\ prog = "pip"
  /\ nops < MaxOps
  /\ \E key \in ApplyKeys(PipMIRRORS) :
       IF ~InCatalog(key, PipMIRRORS)
         THEN CliFinish("configure_mirror", key, "False", cli, confdir, <<>>, "skipped")
       ELSE \E mk \in MkdirOutcomes(confdir) :
         IF mk # "ok"
           THEN CliFinish("configure_mirror", key, "False", cli, confdir,
                          <<"mkdir">>, "skipped")
           ELSE \E set1 \in RunOutcomes :
             IF set1 # "ok"
               THEN CliFinish("configure_mirror", key, "False", cli, TRUE,
                              <<"mkdir", "set">>, "skipped")
               ELSE \E set2 \in {"ok", "fail", "raise"} :
                 LET c1 == [cli EXCEPT !.url = key]
                     c2 == [c1 EXCEPT !.host = TrustedHostAfter(set2, key, cli.host)]
                     fx == <<"mkdir", "set", IF set2 = "fail" THEN "set_failed" ELSE "set">>
                 IN  IF set2 = "raise"
                       THEN CliFinish("configure_mirror", key, "False", c2, TRUE,
                                      fx, "skipped")
                       ELSE \E rd \in IoOutcomes :
                         CliFinish("configure_mirror", key, "True", c2, TRUE,
                                   fx \o <<"verify">>,
                                   IF ReadBack(c2.url, rd) = key THEN "ok" ELSE "failed")

\* NpmConfigurator.configure_mirror
Npm_configure_mirror ==
  /\ prog = "npm"
  /\ nops < MaxOps
  /\ \E key \in ApplyKeys(NpmMIRRORS) :
       IF ~InCatalog(key, NpmMIRRORS)
         THEN CliFinish("configure_mirror", key, "False", cli, confdir, <<>>, "skipped")
       ELSE IF ~installed
         THEN CliFinish("configure_mirror", key, "False", cli, confdir, <<"check">>, "skipped")
       ELSE \E set \in RunOutcomes :
         IF set # "ok"
           THEN CliFinish("configure_mirror", key, "False", cli, confdir,
                          <<"check", "set">>, "skipped")
           ELSE \E rd \in IoOutcomes :
             LET c1 == [cli EXCEPT !.url = key] IN
             CliFinish("configure_mirror", key, "True", c1, confdir,
                       <<"check", "set", "verify">>,
                       IF ReadBack(c1.url, rd) = key THEN "ok" ELSE "failed")

\* composer config --unset repos.packagist.org: without --global the command
\* edits the composer.json of the working directory and fails without one
ComposerUnset(c, out) ==
  IF out = "ok" /\ c.project # "absent" THEN [c EXCEPT !.project = "unset"] ELSE c
ComposerUnsetOk(c, out) == out = "ok" /\ c.project # "absent"

\* composer config --global repos.packagist.org composer <url>
ComposerSetGlobal(c, key, out) == IF out = "ok" THEN [c EXCEPT !.url = key] ELSE c

\* ComposerConfigurator.configure_mirror
Composer_configure_mirror ==
  /\ prog = "composer"
  /\ nops < MaxOps
  /\ \E key \in ApplyKeys(ComposerMIRRORS) :
       IF ~InCatalog(key, ComposerMIRRORS)
         THEN CliFinish("configure_mirror", key, "False", cli, confdir, <<>>, "skipped")
       ELSE IF ~installed
         THEN CliFinish("configure_mirror", key, "False", cli, confdir, <<"check">>, "skipped")
       ELSE \E mk \in MkdirOutcomes(confdir) :
         IF mk # "ok"
           THEN CliFinish("configure_mirror", key, "raised", cli, confdir,
                          <<"check", "mkdir">>, "skipped")
           ELSE \E run \in RunOutcomes :
             LET c1 == IF key = "official" THEN ComposerUnset(cli, run)
                                           ELSE ComposerSetGlobal(cli, key, run)
                 ok == IF key = "official" THEN ComposerUnsetOk(cli, run) ELSE run = "ok"
             IN  IF ~ok
                   THEN CliFinish("configure_mirror", key, "False", c1, TRUE,
                                  <<"check", "mkdir", "set">>, "skipped")
                   ELSE \E rd \in IoOutcomes :
                     LET current_mirror == ReadBack(c1.url, rd) IN
                     CliFinish("configure_mirror", key, "True", c1, TRUE,
                               <<"check", "mkdir", "set", "verify">>,
                               IF \/ key = "official" /\ current_mirror = "none"
                                  \/ current_mirror = key
                                 THEN "ok" ELSE "failed")

\* show / get_current_mirror: the mirror reported for the present state
Show ==
  CASE prog = "maven" ->
         IF Exists(target) /\ ParsedMirrors(ContentOf(target)) # <<>>
           THEN ParsedMirrors(ContentOf(target))[1].v ELSE "none"
    [] prog = "npm" -> IF cli.url = "unset" THEN "official" ELSE cli.url
    [] OTHER -> IF cli.url = "unset" THEN "none" ELSE cli.url

(***************************************************************************)
(* PostgreSQLConfigManager._update_hba_security_config                     *)
(*                                                                         *)
(* A line of pg_hba.conf is the sequence of its whitespace-separated       *)
(* fields, what str.split() returns; a comment line starts with "#".       *)
(***************************************************************************)
HbaComment == <<"#", "local", "all", "all", "trust">>
HbaLocalTrust == <<"local", "all", "all", "trust">>
HbaHostTrust == <<"host", "all", "all", "127.0.0.1/32", "trust">>
HbaHostMd5 == <<"host", "all", "all", "::1/128", "md5">>
HbaHostMaskTrust == <<"host", "all", "all", "127.0.0.1", "255.255.255.255", "trust">>

\* the pg_hba.conf files found on the machine
InitialHba ==
  { <<HbaComment, HbaLocalTrust, HbaHostTrust>>,
    <<HbaHostTrust, HbaHostMd5>>,
    <<HbaHostMd5, HbaHostMaskTrust>> }

\* one turn of the loop over the lines: parts[4] of a line of five or more
\* fields that starts with local or host
UpdateHbaLine(parts) ==
  IF parts[1] # "#" /\ Len(parts) >= 5
       /\ parts[1] \in {"local", "host"} /\ parts[5] = "trust"
    THEN [parts EXCEPT ![5] = "scram-sha-256"]
    ELSE parts

\* the end of _update_hba_security_config
HbaFinish(result, file, backup, fx) ==
  /\ hba' = [file |-> file, backup |-> backup]
  /\ last' = [NoOp EXCEPT !.op = "_update_hba_security_config",
                          !.result = result, !.pre = target, !.fx = fx]
  /\ nops' = nops + 1
  /\ UNCHANGED <<prog, clock, target, backups, confdir, source, config_files,
                 installed, cli, made>>
  /\ UNCHANGED <<testVars, tabVars>>

Pg_update_hba_security_config ==
  /\ prog = "postgresql"
  /\ nops < MaxOps
  /\ IF ~Exists(hba.file)
       THEN HbaFinish("False", hba.file, hba.backup, <<>>)
       ELSE \E cp \in IoOutcomes :
         IF cp # "ok"
           THEN HbaFinish("False", hba.file, hba.backup, <<"backup">>)
           ELSE \E wr \in IoOutcomes :
             LET old == ContentOf(hba.file)
                 updated_lines == [i \in DOMAIN old |-> UpdateHbaLine(old[i])]
             IN  IF wr # "ok"
                   THEN HbaFinish("False", hba.file, hba.file,
                                  <<"backup", "read", "write">>)
                   ELSE HbaFinish("True", File(updated_lines), hba.file,
                                  <<"backup", "read", "write">>)

(***************************************************************************)
(* The clock, the initial states, the specification                        *)
(***************************************************************************)
Tick ==
  /\ clock < MaxClock
  /\ clock' = clock + 1
  /\ UNCHANGED <<prog, nops, target, backups, confdir, source, config_files,
                 installed, cli, made, last, hba>>
  /\ UNCHANGED <<testVars, tabVars>>

Init ==
  /\ prog \in Tools \cup Managers
  /\ nops = 0
  /\ clock = 0
  /\ backups = [s \in Suffixes |-> Absent]
  /\ made = {}
  /\ last = NoOp
  /\ TestIdle
  /\ TabIdle
  /\ net = "up"
  /\ hba \in IF prog = "postgresql"
               THEN {NoHba} \cup {[file |-> File(c), backup |-> Absent] : c \in InitialHba}
               ELSE {NoHba}
  /\ cli \in [url : {"unset", MIRRORS(prog)[1]}, host : {"unset"},
              project : IF prog = "composer" THEN {"absent", "unset"} ELSE {"unset"}]
  /\ prog \notin {"pip", "npm", "composer"} => cli.url = "unset"
  /\ IF prog = "maven"
       THEN /\ source \in {Absent} \cup {File(t) : t \in Templates}
            /\ target \in {Absent, File(UserSettings)}
            /\ confdir \in BOOLEAN
            /\ Exists(target) => confdir
            /\ installed \in BOOLEAN
            /\ config_files = <<>>
       ELSE IF prog \in Managers
         THEN /\ source = Absent
              /\ target \in {Absent} \cup {File(c) : c \in InitialConfigs(prog)}
              /\ confdir = TRUE
              /\ installed = TRUE
              /\ config_files = IF Exists(target) THEN <<"conf">> ELSE <<>>
         ELSE /\ source = Absent
              /\ target = Absent
              /\ confdir \in BOOLEAN
              /\ installed \in BOOLEAN
              /\ config_files = <<>>

Next ==
  \/ Maven_configure_mirror
  \/ Maven_configure
  \/ Maven_update_local_repository
  \/ Manager_write_config
  \/ Manager_update_basic_config
  \/ Pg_update_hba_security_config
  \/ Pip_configure_mirror
  \/ Npm_configure_mirror
  \/ Composer_configure_mirror
  \/ Tick

Spec == Init /\ [][Next]_vars

(***************************************************************************)
(* test_all_mirrors (the same code in the four configurators)              *)
(*                                                                         *)
(* A probe returns the elapsed time, here a number of time units in        *)
(* 0..MaxLatency, or None.                                                 *)
(***************************************************************************)
MaxLatency == 2
None == -1
Speeds == 0..MaxLatency \cup {None}
\* float('inf')
Inf == MaxLatency + 1

\* a faulty sort key, which forgets the "is None" component
SortKeyBySpeedOnly(x) == <<FALSE, x.speed>>

\* key=lambda x: (x[2] is None, x[2] if x[2] is not None else float('inf'))
SortKey(x) == <<x.speed = None, IF x.speed # None THEN x.speed ELSE Inf>>

\* the order of Python tuples (bool, float): False < True, then the number
KeyLess(a, b) == \/ ~a[1] /\ b[1]
                 \/ a[1] = b[1] /\ a[2] < b[2]

\* a faulty sort, which puts an element in front of its equals
RECURSIVE InsertBeforeEqual(_, _)
InsertBeforeEqual(x, s) ==
  IF s = <<>> THEN <<x>>
  ELSE IF ~KeyLess(SortKey(Head(s)), SortKey(x))
    THEN <<x>> \o s
    ELSE <<Head(s)>> \o InsertBeforeEqual(x, Tail(s))

\* list.sort is stable: an element goes behind every element that does not
\* compare greater than it
RECURSIVE InsertSorted(_, _)
InsertSorted(x, s) ==
  IF s = <<>> THEN <<x>>
  ELSE IF KeyLess(SortKey(x), SortKey(Head(s)))
    THEN <<x>> \o s
    ELSE <<Head(s)>> \o InsertSorted(x, Tail(s))

RECURSIVE Sort(_)
Sort(s) == IF s = <<>> THEN <<>>
           ELSE InsertSorted(s[Len(s)], Sort(SubSeq(s, 1, Len(s) - 1)))

\* the network-layer outcome of the one request of a probe
NetOutcomes == {"ok", "dns", "refused", "timeout", "http_error", "read_failed"}

\* what urlopen / response.read raise for an outcome
ExceptionOf(outcome) ==
  CASE outcome = "dns" -> "URLError"
    [] outcome = "refused" -> "URLError"
    [] outcome = "timeout" -> "TimeoutError"
    [] outcome = "http_error" -> "HTTPError"
    [] outcome = "read_failed" -> "IncompleteRead"
    [] OTHER -> "none"

\* the exception classes under urllib.error.URLError, and under Exception
URLErrors == {"URLError", "HTTPError"}
Exceptions == URLErrors \cup {"TimeoutError", "IncompleteRead"}

\* a faulty handler, with the first except clause only
CaughtAsURLError(exc) == exc \in URLErrors

\* except urllib.error.URLError ... except Exception
Caught(exc) == exc \in URLErrors \/ exc \in Exceptions

\* the value that stands for an exception leaving test_mirror_speed
Raised == -2

\* test_mirror_speed: the elapsed time, None, or the exception
test_mirror_speed(outcome, elapsed) ==
  IF outcome = "ok" THEN elapsed
  ELSE IF Caught(ExceptionOf(outcome)) THEN None ELSE Raised

\* a faulty loop, which probes the first mirror again and again
FirstKey(catalog, n) == catalog[1]

\* for key, mirror in self.MIRRORS.items(): the key of turn n + 1
NextKey(catalog, n) == catalog[n + 1]

\* a faulty recommendation, which forgets the "is not None" test
recommend_first(list) == IF list # <<>> THEN list[1].key ELSE "none"

\* if results and results[0][2] is not None: the key recommended
recommend(list) ==
  IF list # <<>> /\ list[1].speed # None THEN list[1].key ELSE "none"

\* the call: results = []
StartTest ==
  /\ pc = "idle"
  /\ pc' = "probing"
  /\ results' = <<>>
  /\ ranked' = <<>>
  /\ UNCHANGED <<recommended, inflight, started, lastProbe, is_running, stop_called>>
  /\ UNCHANGED <<configVars, tabVars>>

\* the call of test_mirror_speed in one turn of the loop
CallProbe ==
  LET key == NextKey(MIRRORS(prog), Len(results))
  IN  /\ inflight' = key
      /\ started' = Append(started, key)

\* the return of test_mirror_speed and the append that follows it; an
\* exception leaves the loop and the caller
ProbeReturns ==
  \E outcome \in NetOutcomes :
  \E elapsed \in IF outcome = "ok" THEN 0..MaxLatency ELSE {0} :
    LET speed == test_mirror_speed(outcome, elapsed)
    IN  /\ lastProbe' = [key |-> inflight, outcome |-> outcome,
                         elapsed |-> elapsed, speed |-> speed]
        /\ inflight' = NoKey
        /\ IF speed = Raised
             THEN pc' = "raised" /\ UNCHANGED results
             ELSE /\ results' = Append(results, [key |-> inflight, speed |-> speed])
                  /\ UNCHANGED pc

\* one turn of "for key, mirror in self.MIRRORS.items()": up to the request
ProbeStart ==
  /\ pc = "probing"
  /\ inflight = NoKey
  /\ Len(results) < Len(MIRRORS(prog))
  /\ CallProbe
  /\ UNCHANGED <<pc, results, ranked, recommended, lastProbe, is_running, stop_called>>
  /\ UNCHANGED <<configVars, tabVars>>

\* the rest of the turn: the probe returns, its result is appended
ProbeReturn ==
  /\ pc = "probing"
  /\ inflight # NoKey
  /\ ProbeReturns
  /\ UNCHANGED <<ranked, recommended, started, is_running, stop_called>>
  /\ UNCHANGED <<configVars, tabVars>>

\* after the loop: results.sort(...), the recommendation, return results
Rank ==
  /\ pc = "probing"
  /\ inflight = NoKey
  /\ Len(results) = Len(MIRRORS(prog))
  /\ ranked' = Sort(results)
  /\ recommended' = recommend(Sort(results))
  /\ pc' = "done"
  /\ UNCHANGED <<results, inflight, started, lastProbe, is_running, stop_called>>
  /\ UNCHANGED <<configVars, tabVars>>

TestInit ==
  /\ prog \in Tools
  /\ nops = 0
  /\ clock = 0
  /\ target = Absent
  /\ backups = [s \in Suffixes |-> Absent]
  /\ confdir = TRUE
  /\ source = Absent
  /\ config_files = <<>>
  /\ installed = TRUE
  /\ cli = [url |-> "unset", host |-> "unset", project |-> "unset"]
  /\ made = {}
  /\ last = NoOp
  /\ hba = NoHba
  /\ TabIdle
  /\ net = "up"
  /\ TestIdle

TestNext == StartTest \/ ProbeStart \/ ProbeReturn \/ Rank

SpecTest == TestInit /\ [][TestNext]_vars

(***************************************************************************)
(* The GUI speed test: ComposerMirrorTestThread, MavenMirrorTestThread     *)
(*                                                                         *)
(* The tab has called start() on the thread; run() executes on the worker  *)
(* and stop() on the GUI thread, in any interleaving.  One turn of the     *)
(* loop, from the test of is_running to the call of test_mirror_speed, is  *)
(* one step.                                                               *)
(***************************************************************************)
ThreadTools == {"composer", "maven"}

\* run(): self.is_running = True; results = []
Thread_run ==
  /\ pc = "started"
  /\ is_running' = TRUE
  /\ results' = <<>>
  /\ pc' = "running"
  /\ UNCHANGED <<ranked, recommended, inflight, started, lastProbe, stop_called>>
  /\ UNCHANGED <<configVars, tabVars>>

\* a turn of the loop that passes "if not self.is_running: break"
Thread_probe ==
  /\ pc = "running"
  /\ inflight = NoKey
  /\ Len(results) < Len(MIRRORS(prog))
  /\ is_running
  /\ CallProbe
  /\ UNCHANGED <<pc, results, ranked, recommended, lastProbe, is_running, stop_called>>
  /\ UNCHANGED <<configVars, tabVars>>

\* test_mirror_speed returns, results.append
Thread_return ==
  /\ pc = "running"
  /\ inflight # NoKey
  /\ ProbeReturns
  /\ UNCHANGED <<ranked, recommended, started, is_running, stop_called>>
  /\ UNCHANGED <<configVars, tabVars>>

\* the loop ends or breaks: results.sort, result_signal.emit(results), and
\* show_test_results on the list emitted
Thread_emit ==
  /\ pc = "running"
  /\ inflight = NoKey
  /\ Len(results) = Len(MIRRORS(prog)) \/ ~is_running
  /\ ranked' = Sort(results)
  /\ recommended' = recommend(Sort(results))
  /\ pc' = "done"
  /\ UNCHANGED <<results, inflight, started, lastProbe, is_running, stop_called>>
  /\ UNCHANGED <<configVars, tabVars>>

\* stop_test: if self.test_thread.isRunning(): self.test_thread.stop(), which
\* is self.is_running = False; the wait() that follows blocks the GUI thread
\* until the thread has finished, so there is no second stop()
Thread_stop ==
  /\ pc \in {"started", "running"}
  /\ ~stop_called
  /\ is_running' = FALSE
  /\ stop_called' = TRUE
  /\ UNCHANGED <<pc, results, ranked, recommended, inflight, started, lastProbe>>
  /\ UNCHANGED <<configVars, tabVars>>

ThreadInit ==
  /\ prog \in ThreadTools
  /\ nops = 0
  /\ clock = 0
  /\ target = Absent
  /\ backups = [s \in Suffixes |-> Absent]
  /\ confdir = TRUE
  /\ source = Absent
  /\ config_files = <<>>
  /\ installed = TRUE
  /\ cli = [url |-> "unset", host |-> "unset", project |-> "unset"]
  /\ made = {}
  /\ last = NoOp
  /\ hba = NoHba
  /\ TabIdle
  /\ net = "up"
  /\ pc = "started"
  /\ results = <<>>
  /\ ranked = <<>>
  /\ recommended = "none"
  /\ inflight = NoKey
  /\ started = <<>>
  /\ lastProbe = NoProbe
  /\ is_running = FALSE
  /\ stop_called = FALSE

ThreadNext == Thread_run \/ Thread_probe \/ Thread_return \/ Thread_emit \/ Thread_stop

SpecThread == ThreadInit /\ [][ThreadNext]_vars

(***************************************************************************)
(* A config tab of the GUI (ComposerConfigTab, MavenConfigTab and the       *)
(* others, which share this code): the start and stop buttons, the status  *)
(* label, the result table, the test threads the tab creates and the slot  *)
(* calls that the signals of a thread queue for the GUI thread.  A click    *)
(* is handled when the GUI thread is in its event loop; the order between  *)
(* a click and a queued slot call is not fixed.                            *)
(***************************************************************************)
\* the test threads a tab creates in one behaviour
MaxThreads == 2

NewThread == [pc |-> "started", is_running |-> FALSE, results |-> <<>>]

\* QThread.isRunning(): from start() until run() has returned
isRunning(t) == t.pc # "finished"

\* what a probe of this tab returns
TabProbe ==
  IF net = "up" THEN test_mirror_speed("ok", 1) ELSE test_mirror_speed("timeout", 0)

\* start_test: the table is cleared, the buttons are switched, a new thread
\* is stored in self.test_thread and started
Tab_start_test ==
  /\ ui_pc = "idle"
  /\ test_btn
  /\ Len(threads) < MaxThreads
  /\ result_table' = <<>>
  /\ test_btn' = FALSE
  /\ stop_btn' = TRUE
  /\ status_label' = "testing"
  /\ threads' = Append(threads, NewThread)
  /\ UNCHANGED <<ui_pc, posted, net>>
  /\ UNCHANGED <<configVars, testVars>>

\* run(): self.is_running = True; results = []
Worker_run ==
  \E w \in DOMAIN threads :
    /\ threads[w].pc = "started"
    /\ threads' = [threads EXCEPT ![w].pc = "running", ![w].is_running = TRUE]
    /\ UNCHANGED <<ui_pc, test_btn, stop_btn, status_label, result_table, posted, net>>
    /\ UNCHANGED <<configVars, testVars>>

\* a turn of the loop that passes "if not self.is_running: break":
\* progress_signal.emit, then the call of test_mirror_speed
Worker_probe ==
  \E w \in DOMAIN threads :
    /\ threads[w].pc = "running"
    /\ Len(threads[w].results) < Len(MIRRORS(prog))
    /\ threads[w].is_running
    /\ threads' = [threads EXCEPT ![w].pc = "probing"]
    /\ posted' = Append(posted, [slot |-> "update_test_status", from |-> w,
                                 results |-> <<>>])
    /\ UNCHANGED <<ui_pc, test_btn, stop_btn, status_label, result_table, net>>
    /\ UNCHANGED <<configVars, testVars>>

\* test_mirror_speed returns, results.append
Worker_return ==
  \E w \in DOMAIN threads :
    /\ threads[w].pc = "probing"
    /\ threads' = [threads EXCEPT
           ![w].pc = "running",
           ![w].results = Append(@, [key |-> NextKey(MIRRORS(prog), Len(@)),
                                     speed |-> TabProbe])]
    /\ UNCHANGED <<ui_pc, test_btn, stop_btn, status_label, result_table, posted, net>>
    /\ UNCHANGED <<configVars, testVars>>

\* the loop ends or breaks: results.sort, result_signal.emit(results), and
\* run() returns, which ends the life of its local variable results
Worker_emit ==
  \E w \in DOMAIN threads :
    /\ threads[w].pc = "running"
    /\ Len(threads[w].results) = Len(MIRRORS(prog)) \/ ~threads[w].is_running
    /\ threads' = [threads EXCEPT ![w].pc = "finished", ![w].results = <<>>]
    /\ posted' = Append(posted, [slot |-> "show_test_results", from |-> w,
                                 results |-> Sort(threads[w].results)])
    /\ UNCHANGED <<ui_pc, test_btn, stop_btn, status_label, result_table, net>>
    /\ UNCHANGED <<configVars, testVars>>

\* a faulty stop(), which also empties the list of the thread
stop_and_clear(t) == [t EXCEPT !.is_running = FALSE, !.results = <<>>]

\* stop(), called by the GUI thread: self.is_running = False
stop(t) == [t EXCEPT !.is_running = FALSE]

\* the end of stop_test
TabStopped ==
  /\ test_btn' = TRUE
  /\ stop_btn' = FALSE
  /\ status_label' = "stopped"

\* stop_test, up to the wait() when the thread is running
Tab_stop_test ==
  /\ ui_pc = "idle"
  /\ stop_btn
  /\ IF threads # <<>> /\ isRunning(threads[Len(threads)])
       THEN /\ threads' = [threads EXCEPT ![Len(threads)] = stop(@)]
            /\ ui_pc' = "wait"
            /\ UNCHANGED <<test_btn, stop_btn, status_label>>
       ELSE /\ TabStopped
            /\ UNCHANGED <<ui_pc, threads>>
  /\ UNCHANGED <<result_table, posted, net>>
  /\ UNCHANGED <<configVars, testVars>>

\* self.test_thread.wait() returns when run() has returned; the rest of
\* stop_test
Tab_wait_returns ==
  /\ ui_pc = "wait"
  /\ ~isRunning(threads[Len(threads)])
  /\ ui_pc' = "idle"
  /\ TabStopped
  /\ UNCHANGED <<result_table, threads, posted, net>>
  /\ UNCHANGED <<configVars, testVars>>

\* the event loop of the GUI thread calls the slot of the oldest queued
\* signal: update_test_status(message) or show_test_results(results)
Tab_deliver ==
  /\ ui_pc = "idle"
  /\ posted # <<>>
  /\ posted' = Tail(posted)
  /\ IF Head(posted).slot = "update_test_status"
       THEN /\ status_label' = "progress"
            /\ UNCHANGED <<test_btn, stop_btn, result_table>>
       ELSE /\ result_table' = Head(posted).results
            /\ test_btn' = TRUE
            /\ stop_btn' = FALSE
            /\ status_label' = IF recommend(Head(posted).results) # "none"
                                  THEN "done" ELSE "done_unreachable"
  /\ UNCHANGED <<ui_pc, threads, net>>
  /\ UNCHANGED <<configVars, testVars>>

\* the tab's configure_mirror, on a click: the tool is installed and the
\* confirmation is answered with Yes; the GUI thread calls
\* self.configurator.configure_mirror(mirror_key)
Tab_configure_mirror ==
  /\ ui_pc = "idle"
  /\ nops < MaxOps
  /\ installed
  /\ ui_pc' = "configure_mirror"
  /\ UNCHANGED widgetVars
  /\ UNCHANGED <<configVars, testVars>>

\* that call runs and returns, on the GUI thread
Tab_configure_mirror_runs ==
  /\ ui_pc = "configure_mirror"
  /\ IF prog = "maven" THEN Maven_configure_mirror ELSE Composer_configure_mirror

TabInit ==
  /\ prog \in ThreadTools
  /\ nops = MaxOps - 1
  /\ clock = 0
  /\ target = Absent
  /\ backups = [s \in Suffixes |-> Absent]
  /\ confdir = TRUE
  /\ source = IF prog = "maven" THEN File(<<LocalRepo("tpl"), MirrorsOpen, Block("tpl1"), MirrorsClose>>) ELSE Absent
  /\ config_files = <<>>
  /\ installed = TRUE
  /\ cli = [url |-> "unset", host |-> "unset", project |-> "unset"]
  /\ made = {}
  /\ last = NoOp
  /\ hba = NoHba
  /\ TestIdle
  /\ TabIdle
  /\ net \in {"up", "down"}

TabNext ==
  \/ Tab_start_test
  \/ Tab_stop_test
  \/ Tab_wait_returns
  \/ Tab_deliver
  \/ Tab_configure_mirror
  \/ Tab_configure_mirror_runs
  \/ Worker_run
  \/ Worker_probe
  \/ Worker_return
  \/ Worker_emit

SpecTab == TabInit /\ [][TabNext]_vars

(***************************************************************************)
(* Claims                                                                  *)
(***************************************************************************)
IsApply == last.op = "configure_mirror"
CatalogKeys == {MIRRORS(prog)[i] : i \in DOMAIN MIRRORS(prog)}
Called(step) == \E i \in DOMAIN last.fx : last.fx[i] = step
BackupMade == last.backup.tried /\ last.backup.ok
BackupFailed == last.backup.tried /\ ~last.backup.ok

\* C1: in every operation of the Maven configurator and tab and in every
\* write_config, a configuration file that existed before the operation is
\* changed only if the operation made a backup copy of it first.
C1_NoOverwriteWithoutBackup ==
  (prog \in {"maven"} \cup Managers /\ Exists(last.pre) /\ target # last.pre)
    => BackupMade

\* C2: every backup a backup step ever made is still there with the
\* contents it was made with.
C2_BackupsAreNeverOverwritten ==
  \A b \in made : backups[b.at] = b.file

\* C3: after an operation that succeeded on a target that existed and was
\* not empty, the backup the operation made holds what the target held
\* immediately before the operation.
C3_BackupRoundTrip ==
  ( /\ last.result = "True"
    /\ Exists(last.pre) /\ ContentOf(last.pre) # <<>>
    /\ BackupMade )
    => backups[last.backup.at] = last.pre

C3_Witness ==
  /\ last.result = "True"
  /\ Exists(last.pre) /\ ContentOf(last.pre) # <<>>
  /\ BackupMade
  /\ target # last.pre
  /\ backups[last.backup.at] = last.pre

\* C4: when the backup step failed, the target is written only after the
\* interactive user of the Maven configurator answered "y"; otherwise the
\* operation does not succeed (it returns False when the user declined or
\* no choice is offered) and the target is exactly what it was.
C4_FailedBackupFailsClosed ==
  BackupFailed =>
    /\ last.resp = "y" => prog = "maven"
    /\ last.resp # "y" =>
         /\ last.result # "True"
         /\ last.resp \in {"n", ""} => last.result = "False"
         /\ target = last.pre
         /\ ~Called("copy") /\ ~Called("write")

C4_Witness ==
  /\ BackupFailed
  /\ last.resp = "n"
  /\ last.result = "False"
  /\ target = last.pre

\* C5: configure_mirror with a key that is not in the tool's catalog returns
\* False and changes nothing: no directory, no file, no backup, no setting
\* of the vendor CLI.
C5_UnknownKeyChangesNothing ==
  [][ (last'.op = "configure_mirror" /\ nops' = nops + 1
         /\ last'.key \notin CatalogKeys)
      => /\ last'.result = "False"
         /\ last'.fx = <<>>
         /\ UNCHANGED <<target, backups, confdir, cli, made>> ]_vars

C5_Witness ==
  /\ IsApply
  /\ last.key = "bogus-key"
  /\ last.result = "False"
  /\ ~confdir

\* C6: without the tool's CLI on PATH, configure_mirror with a valid key
\* returns False and has called nothing that changes a directory, a file or
\* a setting.
C6_MissingCliShortCircuits ==
  [][ (last'.op = "configure_mirror" /\ nops' = nops + 1
         /\ ~installed /\ last'.key \in CatalogKeys)
      => /\ last'.result = "False"
         /\ UNCHANGED <<target, backups, confdir, cli>> ]_vars

\* C7: after configure_mirror("official") returned True, show reports the
\* upstream default or no override, never another mirror of the catalog.
C7_OfficialThenShow ==
  (IsApply /\ last.key = "official" /\ last.result = "True")
    => Show \notin CatalogKeys \ {"official"}

\* C8: when the write step succeeded and the verification did not find the
\* expected mirror, configure_mirror still returns True.
C8_FailedVerificationIsAWarning ==
  (IsApply /\ last.verified = "failed") => last.result = "True"

\* C9: no failing step of configure_mirror (directory creation, backup,
\* copy, patch, subprocess, re-read) leaves it as an exception: it returns.
C9_NoExceptionEscapes ==
  (IsApply /\ last.resp # "eof") => last.result # "raised"

\* C10: test_all_mirrors returns every catalog mirror exactly once, with the
\* speed its probe returned, every reachable mirror before every unreachable
\* one, and the reachable ones by non-decreasing speed.
C10_RankedIsTotalAndOrdered ==
  pc = "done" =>
    /\ Len(ranked) = Len(MIRRORS(prog))
    /\ \A k \in CatalogKeys : Cardinality({i \in DOMAIN ranked : ranked[i].key = k}) = 1
    /\ \A i \in DOMAIN ranked : \E j \in DOMAIN results : ranked[i] = results[j]
    /\ \A i, j \in DOMAIN ranked :
         i < j =>
           /\ ranked[i].speed = None => ranked[j].speed = None
           /\ (ranked[i].speed # None /\ ranked[j].speed # None)
                => ranked[i].speed <= ranked[j].speed

C10_Witness ==
  /\ pc = "done"
  /\ ranked # results
  /\ \E i, j \in DOMAIN results :
       /\ i < j
       /\ results[i].speed = None
       /\ results[j].speed # None
  /\ \E i, j \in DOMAIN results :
       /\ i < j
       /\ results[j].speed # None
       /\ results[i].speed > results[j].speed

\* C11: after test_all_mirrors a mirror is recommended exactly when at least
\* one probe succeeded; the recommended mirror is the first entry of the
\* ranked list and no reachable mirror has a smaller latency; when every
\* probe failed nothing is recommended.
C11_RecommendFastestReachable ==
  pc = "done" =>
    /\ recommended # "none" <=> \E i \in DOMAIN results : results[i].speed # None
    /\ recommended # "none" =>
         /\ recommended = ranked[1].key
         /\ ranked[1].speed # None
         /\ \A i \in DOMAIN results :
              results[i].speed # None => ranked[1].speed <= results[i].speed

C11_Witness ==
  /\ pc = "done"
  /\ recommended # "none"
  /\ recommended # results[1].key
  /\ results[1].speed = None
  /\ \E i \in DOMAIN results : results[i].speed # None /\ results[i].key # recommended

\* C12: test_mirror_speed never raises: for every network-layer outcome
\* other than success it returns None, and it returns an elapsed time only
\* when the request and the partial read succeeded.
C12_ProbeNeverRaises ==
  /\ pc # "raised"
  /\ lastProbe.key # NoKey =>
       /\ lastProbe.speed # Raised
       /\ lastProbe.outcome # "ok" => lastProbe.speed = None
       /\ lastProbe.speed # None =>
            lastProbe.outcome = "ok" /\ lastProbe.speed = lastProbe.elapsed

C12_Witness ==
  /\ lastProbe.key # NoKey
  /\ lastProbe.outcome = "read_failed"
  /\ lastProbe.speed = None
  /\ results # <<>>
  /\ results[Len(results)] = [key |-> lastProbe.key, speed |-> None]

C14_SameChangeTwiceIsIdempotent ==
  [][ ( /\ last.op \in {"configure_mirror", "update_basic_config"}
        /\ prog \in {"maven"} \cup Managers
        /\ nops' = nops + 1
        /\ last'.op = last.op /\ last'.key = last.key
        /\ last.result = "True" /\ last'.result = "True"
        /\ last.fx[1] # "read_config_failed" /\ last'.fx[1] # "read_config_failed" )
      => target' = target ]_vars

\* C15: once stop() has been called on a started test thread, no further
\* probe is started, and the probe in flight, if any, returns and its result
\* is appended.
C15_StopIsCooperative ==
  [][ stop_called =>
        /\ started' = started
        /\ inflight # NoKey => inflight' \in {inflight, NoKey}
        /\ (inflight # NoKey /\ inflight' = NoKey) =>
             results' = Append(results, [key |-> inflight, speed |-> lastProbe'.speed])
    ]_vars

\* the place of a key in the catalog (MIRRORS registration order)
CatalogPos(key) == CHOOSE i \in DOMAIN MIRRORS(prog) : MIRRORS(prog)[i] = key

\* C16: in the list test_all_mirrors returns, two mirrors with the same
\* latency, and two unreachable mirrors, stand in catalog order.
C16_TiesKeepCatalogOrder ==
  pc = "done" =>
    \A i, j \in DOMAIN ranked :
      (i < j /\ ranked[i].speed = ranked[j].speed)
        => CatalogPos(ranked[i].key) < CatalogPos(ranked[j].key)

C16_Witness ==
  /\ pc = "done"
  /\ ranked # results
  /\ \E i, j \in DOMAIN ranked :
       i < j /\ ranked[i].speed = ranked[j].speed /\ ranked[i].speed # None
  /\ \E i, j \in DOMAIN ranked :
       i < j /\ ranked[i].speed = None /\ ranked[j].speed = None

\* C17: within one test_all_mirrors call the probes are called for the
\* catalog's mirrors in catalog order, each once and none again; a probe is
\* called only when every earlier one has returned, and the ranking is made
\* only when the last one has returned.
C17_ProbesAreSequential ==
  /\ Len(started) <= Len(MIRRORS(prog))
  /\ \A i \in DOMAIN started : started[i] = MIRRORS(prog)[i]
  /\ Len(started) = Len(results) + (IF inflight # NoKey THEN 1 ELSE 0)
  /\ inflight # NoKey => inflight = started[Len(started)]
  /\ \A i \in DOMAIN results : results[i].key = started[i]
  /\ pc = "done" =>
       /\ inflight = NoKey
       /\ Len(started) = Len(MIRRORS(prog))
       /\ Len(results) = Len(MIRRORS(prog))

C17_Witness ==
  /\ pc = "done"
  /\ Len(started) = Len(MIRRORS(prog))
  /\ started[Len(started)] = "official"
  /\ lastProbe.key = "official"

\* the place of a step in the order check, prepare, backup, write, verify
StepRank(step) ==
  CASE step = "check" -> 0
    [] step = "mkdir" -> 1
    [] step = "backup" -> 2
    [] step = "verify" -> 4
    [] OTHER -> 3

\* the effect of a write step that succeeded, by tool
WriteTookEffect ==
  CASE prog = "maven" ->
         Exists(source) /\ target = File(PatchMirror(ContentOf(source), last.key))
    [] prog = "composer" ->
         IF last.key = "official" THEN cli.project = "unset" ELSE cli.url = last.key
    [] OTHER -> cli.url = last.key

\* the steps of the last configure_mirror ran in order, the verification
\* ran at most once, at the end and after a write that succeeded
ApplyStepsInOrder ==
  /\ \A i, j \in DOMAIN last.fx :
       i < j => StepRank(last.fx[i]) <= StepRank(last.fx[j])
  /\ Cardinality({i \in DOMAIN last.fx : last.fx[i] = "verify"}) <= 1
  /\ Called("verify") => WriteTookEffect /\ last.verified \in {"ok", "failed"}
  /\ ~Called("verify") => last.verified = "skipped" /\ last.result # "True"
  /\ last.key \notin CatalogKeys => last.fx = <<>>

\* C18: in every run of configure_mirror the steps occur in the order key
\* resolution, prerequisite check, backup, write, verify; the verification
\* is attempted only after the write succeeded and nothing is written after
\* it; the run ends in success or in failure.
C18_ApplyStepsAndOutcome ==
  IsApply => ApplyStepsInOrder /\ last.result \in {"True", "False"}

\* the parts of a settings.xml other than its <mirror> blocks
OutsideMirror(content) == SelectSeq(content, LAMBDA it : ~IsBlock(it))

\* C19: a Maven configure_mirror that succeeded on an existing settings.xml
\* changed only its <mirror> element: every other part of the file, the
\* <localRepository> value among them, is after the call what it was before.
C19_ApplyChangesOnlyTheMirror ==
  (prog = "maven" /\ IsApply /\ last.result = "True" /\ Exists(last.pre))
    => /\ Exists(target)
       /\ OutsideMirror(ContentOf(target)) = OutsideMirror(ContentOf(last.pre))

\* C20: Maven configure_mirror(key) passes its verification only if the
\* first mirror the re-read settings.xml configures is the requested one,
\* whatever the shape of the template.
C20_VerifyChecksTheMirror ==
  (prog = "maven" /\ IsApply /\ last.verified = "ok")
    => /\ Exists(target)
       /\ ParsedMirrors(ContentOf(target)) # <<>>
       /\ ParsedMirrors(ContentOf(target))[1].v = new_mirror(last.key)

\* C21: after a write_config(d) of the Redis manager that returned True,
\* read_config returns d.
C21_RedisRoundTrip ==
  (prog = "redis" /\ last.op = "write_config" /\ last.result = "True")
    => read_config("redis", ContentOf(target)) = last.key

\* C22: when the existing configuration file cannot be read or parsed,
\* update_basic_config returns False and leaves the file as it is.
C22_ReadFailureIsAFailure ==
  ( /\ last.op = "update_basic_config"
    /\ Exists(last.pre)
    /\ Called("read_config_failed") )
    => last.result = "False" /\ target = last.pre

\* C23: after a configure_mirror whose write step succeeded and whose
\* verification failed, the target file or the CLI's setting is what the
\* write step produced, not what was there before the call.
C23_NoRollbackAfterFailedVerify ==
  (IsApply /\ last.verified = "failed")
    => WriteTookEffect

C23_Witness ==
  /\ IsApply /\ last.verified = "failed"
  /\ prog = "maven"
  /\ Exists(last.pre) /\ BackupMade
  /\ target # last.pre
  /\ backups[last.backup.at] = last.pre

\* C29: after a write_config(d) of the PostgreSQL manager that returned
\* True, read_config returns d[k] for every key k of d.
C29_PgWriteThenRead ==
  (prog = "postgresql" /\ last.op = "write_config" /\ last.result = "True")
    => \A k \in KeysOf(last.key) :
         /\ k \in KeysOf(read_config("postgresql", ContentOf(target)))
         /\ ValueOf(read_config("postgresql", ContentOf(target)), k) = ValueOf(last.key, k)
\* C28 as stated: after a pip configure_mirror(key) that returned True,
\* index-url and trusted-host are both those of key.
C28_SameKey ==
  (prog = "pip" /\ IsApply /\ last.result = "True")
    => cli.url = last.key /\ cli.host = last.key

\* C28: a pip configure_mirror(key) that returns True has set index-url to
\* the URL of key; trusted-host is the host of key when its command
\* succeeded and is what it was before the call when that command failed.
C28_SameKeyUnlessHostCommandFailed ==
  [][ (prog = "pip" /\ nops' # nops /\ IsApply' /\ last'.result = "True")
        => /\ cli'.url = last'.key
           /\ IF "set_failed" \in {last'.fx[i] : i \in DOMAIN last'.fx}
                THEN cli'.host = cli.host
                ELSE cli'.host = last'.key ]_vars

C28_Witness ==
  /\ prog = "pip" /\ IsApply /\ last.result = "True"
  /\ Called("set_failed")
  /\ cli.url = last.key
  /\ cli.host \notin {"unset", last.key}
\* the field of a pg_hba.conf record that holds the authentication method:
\* the fourth of a local record, the fifth of a host record with a CIDR
\* address, the sixth of a host record with an address and a netmask
HbaNetmasks == {"255.255.255.255"}
HbaMethodField(parts) ==
  IF parts[1] = "local" THEN 4
  ELSE IF Len(parts) >= 6 /\ parts[5] \in HbaNetmasks THEN 6 ELSE 5

\* an active local or host rule whose method is trust
IsTrustRule(parts) ==
  /\ parts[1] \in {"local", "host"}
  /\ Len(parts) >= HbaMethodField(parts)
  /\ parts[HbaMethodField(parts)] = "trust"

\* C30: a _update_hba_security_config that returns True has changed the
\* method of every active local or host rule with method trust to
\* scram-sha-256, has left every other line as it was, and leaves no such
\* rule with method trust.
C30_NoTrustRuleLeft ==
  [][ (nops' # nops /\ last'.op = "_update_hba_security_config"
         /\ last'.result = "True")
        => LET old == ContentOf(hba.file)
               new == ContentOf(hba'.file)
           IN  /\ DOMAIN new = DOMAIN old
               /\ \A i \in DOMAIN old :
                    new[i] = IF IsTrustRule(old[i])
                               THEN [old[i] EXCEPT ![HbaMethodField(old[i])] = "scram-sha-256"]
                               ELSE old[i]
               /\ \A i \in DOMAIN new : ~IsTrustRule(new[i]) ]_vars
\* C24: no GUI action (start test, stop test, apply) keeps the GUI thread
\* in a probe, in a configuration command or file write, or in a wait for
\* the worker: the GUI thread is always in its event loop.
C24_UiThreadNeverBlocked == ui_pc = "idle"

\* the variables of a test thread that is running change in its own steps
\* only
OnlyItsOwnSteps(w) ==
  (isRunning(threads[w]) /\ threads'[w].pc = threads[w].pc)
    => threads'[w] = threads[w]

\* C25 as stated: nothing but the final result list, handed over once when
\* run() ends, goes from the worker to the GUI thread, and no variable of a
\* running worker is written by the GUI thread.
C25_OnlyFinalResultCrosses ==
  [][ /\ \A w \in DOMAIN threads : OnlyItsOwnSteps(w)
      /\ Len(posted') > Len(posted)
           => LET e == posted'[Len(posted')]
              IN  /\ e.slot = "show_test_results"
                  /\ isRunning(threads[e.from]) /\ ~isRunning(threads'[e.from]) ]_vars

\* C25: the worker hands the GUI thread a progress message before each
\* probe and the sorted result list once, when run() ends; the only
\* variable of a running worker that the GUI thread writes is the flag
\* is_running, which stop() sets to False; the list of results of a running
\* worker changes in the worker's own steps only.
C25_FlagAndSignalsCross ==
  [][ /\ \A w \in DOMAIN threads :
           (isRunning(threads[w]) /\ threads'[w].pc = threads[w].pc)
             => /\ threads'[w].results = threads[w].results
                /\ threads'[w].is_running # threads[w].is_running
                     => /\ ui_pc = "idle" /\ ui_pc' = "wait"
                        /\ w = Len(threads)
                        /\ ~threads'[w].is_running
      /\ Len(posted') > Len(posted)
           => LET e == posted'[Len(posted')]
              IN  IF e.slot = "show_test_results"
                    THEN /\ isRunning(threads[e.from]) /\ ~isRunning(threads'[e.from])
                         /\ e.results = Sort(threads[e.from].results)
                    ELSE /\ e.slot = "update_test_status"
                         /\ e.results = <<>>
                         /\ threads'[e.from].pc = "probing" ]_vars

C25_Witness ==
  /\ ui_pc = "wait"
  /\ threads[Len(threads)].pc = "probing"
  /\ ~threads[Len(threads)].is_running
  /\ threads[Len(threads)].results # <<>>
  /\ status_label = "progress"

\* C26: once stop_test has set the status to "stopped", and until the next
\* start_test, the status label and the result table do not change.
C26_StoppedTestShowsNothing ==
  [][ (status_label = "stopped" /\ Len(threads') = Len(threads))
        => status_label' = "stopped" /\ result_table' = result_table ]_vars

\* the test threads with a probe in flight
Probing == {w \in DOMAIN threads : threads[w].pc = "probing"}

\* C27: at most one test thread has a probe in flight, and the start button
\* is enabled only while none has.
C27_OneWorkerProbing ==
  /\ Cardinality(Probing) <= 1
  /\ test_btn => Probing = {}
====
